---- MODULE Spec2Model ----
(***************************************************************************)
(* Application chassis of azos-js: the disposal protocol of                *)
(* DisposableObject (types.js), the static Application instance stack and  *)
(* the static ApplicationComponent registry (chassis.js).                  *)
(*                                                                         *)
(* Objects are identified by tagged pairs: <<"nop", 0>> is the             *)
(* NopApplication singleton, <<"app", i>> the i-th Application constructed *)
(* and <<"comp", j>> the j-th ApplicationComponent constructed.  JavaScript*)
(* is single threaded and every operation here is synchronous, so each     *)
(* call is one atomic action.                                              *)
(***************************************************************************)
EXTENDS Integers, Sequences, FiniteSets, TLC

\* Bounds of the exploration.
MaxApps ==
  2
MaxComps ==
  2
MaxHookRuns ==
  2
MaxHeldLen ==
  3

VARIABLES
  instance,    \* Application.#instance            (chassis.js:41)
  instances,   \* Application.#instances           (chassis.js:40)
  disposed,    \* DisposableObject.#disposed of every constructed object (types.js:42)
  director,    \* ApplicationComponent.#director of every component (chassis.js:211)
  appMap,      \* ApplicationComponent.#appMap     (chassis.js:185)
  call,        \* the last call made and how it completed
  hookRuns,    \* history: number of runs of each object's DESTRUCTOR_METHOD
  prevOf,      \* history: Application.instance as read just before each Application was constructed
  nested,      \* history: every first disposal of a real Application so far hit the newest undisposed one
  cfgRoot,     \* cfg.root of the Configuration that Applications are constructed from
  fields,      \* #id, #name, #description, #copyright, #envName, #isTest of every Application (chassis.js:51-56)
  held         \* the array a caller last got from getAllApplicationComponents, or NoArray

vars ==
  <<instance, instances, disposed, director, appMap, call, hookRuns, prevOf, nested, cfgRoot, fields, held>>

\* The static state of the two classes plus the per-object fields.
progVars ==
  <<instance, instances, disposed, director, appMap>>

----------------------------------------------------------------------------
\* Object identities and instanceof tests.

Null ==
  <<"null", 0>>

NopApp ==
  <<"nop", 0>>

App(i) ==
  <<"app", i>>

Comp(j) ==
  <<"comp", j>>

\* JavaScript values that are not chassis objects, by kind
Value(kind) ==
  <<kind, 0>>

Undefined ==
  Value("undefined")

IsNopApplication(o) ==
  o[1] = "nop"

IsApplication(o) ==
  o[1] \in {"app", "nop"}

IsComponent(o) ==
  o[1] = "comp"

Objects ==
  DOMAIN disposed

RealApps ==
  {o \in Objects : o[1] = "app"}

Apps ==
  {o \in Objects : IsApplication(o)}

Comps ==
  {o \in Objects : IsComponent(o)}

\* aver.isOfEither(dir, Application, ApplicationComponent) passes for instances of either class
isOfEither(v) ==
  IsApplication(v) \/ IsComponent(v)

\* Directors tried that are neither an Application nor an ApplicationComponent
InvalidDirectors ==
  {Null, Value("number"), Value("plain")}

Range(s) ==
  {s[i] : i \in DOMAIN s}

----------------------------------------------------------------------------
\* Read accessors.

\* Variant of the instance getter that reads the top of the instance stack, without a fallback
InstanceOf_TopOfStack(inst) ==
  IF Len(instances) = 0 THEN Null ELSE instances[Len(instances)]

\* static get instance(): Application.#instance ?? NopApplication.instance
InstanceOf(inst) ==
  IF inst # Null THEN inst ELSE NopApp

Instance ==
  InstanceOf(instance)

\* get isDirectedByApp()
isDirectedByApp(dir, c) ==
  IsApplication(dir[c])

\* Variant of the app getter that returns the director without walking up
app_DirectorOnly(dir, c) ==
  dir[c]

\* get app(): walks the director references up to the Application
RECURSIVE app(_, _)
app(dir, c) ==
  IF isDirectedByApp(dir, c) THEN dir[c] ELSE app(dir, dir[c])

\* Map.get: undefined is modelled by the absence of the key
MapHas(map, a) ==
  a \in DOMAIN map

\* types.arrayCopy: array.slice()
arrayCopy(array) ==
  [i \in 1..Len(array) |-> array[i]]

\* static getAllApplicationComponents(app)
getAllApplicationComponents(map, a) ==
  IF ~MapHas(map, a) THEN <<>> ELSE arrayCopy(map[a])

\* Variant of getRootApplicationComponents that returns the whole list, unfiltered
getRootApplicationComponents_Unfiltered(map, dir, a) ==
  IF ~MapHas(map, a) THEN <<>> ELSE arrayCopy(map[a])

\* static getRootApplicationComponents(app); Array.prototype.filter keeps the order
getRootApplicationComponents(map, dir, a) ==
  IF ~MapHas(map, a) THEN <<>>
  ELSE LET isRoot(c) == dir[c] = a IN SelectSeq(map[a], isRoot)

\* Variant of directedComponents that keeps every component directed by a component
directedComponents_AnyNonRoot(map, dir, c) ==
  LET all == getAllApplicationComponents(map, app(dir, c))
      isNonRoot(x) == ~isDirectedByApp(dir, x)
  IN SelectSeq(all, isNonRoot)

\* get directedComponents()
directedComponents(map, dir, c) ==
  LET all == getAllApplicationComponents(map, app(dir, c))
      isMine(x) == dir[x] = c
  IN SelectSeq(all, isMine)

----------------------------------------------------------------------------
\* Array helpers of types.js.

\* Array.prototype.indexOf, 1-based; 0 stands for -1
indexOf(array, elm) ==
  IF \E i \in 1..Len(array) : array[i] = elm
    THEN CHOOSE i \in 1..Len(array) :
           array[i] = elm /\ \A k \in 1..(i - 1) : array[k] # elm
    ELSE 0

\* types.arrayDelete: removes the first occurrence of elm
arrayDelete(array, elm) ==
  LET idx == indexOf(array, elm) IN
  IF idx = 0 THEN array
  ELSE [i \in 1..(Len(array) - 1) |-> IF i < idx THEN array[i] ELSE array[i + 1]]

\* Map.set
MapSet(map, k, v) ==
  [x \in DOMAIN map \cup {k} |-> IF x = k THEN v ELSE map[x]]

\* Map.delete
MapDelete(map, k) ==
  [x \in DOMAIN map \ {k} |-> map[x]]

----------------------------------------------------------------------------
\* Construction.

\* Variant of the push of the Application constructor without the null test
PushPrevious_Always(inst, stack) ==
  Append(stack, inst)

\* Application.constructor, lines 86-88: the previous #instance is pushed when it is not null
PushPrevious(inst, stack) ==
  IF inst # Null THEN Append(stack, inst) ELSE stack

\* ConfigNode.getString(name, dflt): the configured value, or dflt when the root has none
getString(root, name, dflt) ==
  IF name \in DOMAIN root THEN root[name] ELSE dflt

\* ConfigNode.getBool(name, dflt): the configured value, or dflt when the root has none
getBool(root, name, dflt) ==
  IF name \in DOMAIN root THEN root[name] ELSE dflt

\* Variant of the configuration reads in which name and description default to the literal "#0"
ApplicationFields_LiteralDefaults(root) ==
  [id          |-> getString(root, "id", "#0"),
   name        |-> getString(root, "name", "#0"),
   description |-> getString(root, "description", "#0"),
   copyright   |-> getString(root, "copyright", "2023 Azist Group"),
   envName     |-> getString(root, "envName", "local"),
   isTest      |-> getBool(root, "isTest", FALSE)]

\* Application.constructor, lines 77-82: the fields read from the configuration root
ApplicationFields(root) ==
  LET id == getString(root, "id", "#0") IN
  [id          |-> id,
   name        |-> getString(root, "name", id),
   description |-> getString(root, "description", id),
   copyright   |-> getString(root, "copyright", "2023 Azist Group"),
   envName     |-> getString(root, "envName", "local"),
   isTest      |-> getBool(root, "isTest", FALSE)]

\* The root of cfgNOP
cfgNOP ==
  [id |-> "NOP", name |-> "NOP", description |-> "Nop application", envName |-> "local"]

\* The root of new Configuration({})
EmptyConfig ==
  <<>>

\* The string a configuration root may give to each string key read by the constructor
ConfiguredString ==
  [id          |-> "app1",
   name        |-> "My App",
   description |-> "An application",
   copyright   |-> "2024 Someone",
   envName     |-> "prod"]

\* A root with isTest absent, true or false
WithIsTest(root, t) ==
  IF t = "absent" THEN root ELSE root @@ ("isTest" :> (t = "true"))

\* Every configuration root that sets a subset of the keys read by the constructor
Configs ==
  {WithIsTest([k \in keys |-> ConfiguredString[k]], t) :
     keys \in SUBSET DOMAIN ConfiguredString, t \in {"absent", "true", "false"}}

\* No array has been handed to a caller
NoArray ==
  [of |-> Null, ref |-> <<"none", Null>>, items |-> <<>>]

\* After module load: Application's static fields are [] and null, then the
\* static initializer of NopApplication runs the Application constructor once.
Loaded ==
  /\ instances = PushPrevious(Null, <<>>)
  /\ instance = NopApp
  /\ disposed = (NopApp :> FALSE)
  /\ director = <<>>
  /\ appMap = <<>>
  /\ call = [op |-> "load", target |-> NopApp, arg |-> Null, raised |-> FALSE, wasDisposed |-> FALSE]
  /\ hookRuns = (NopApp :> 0)
  /\ prevOf = <<>>
  /\ nested = TRUE
  /\ fields = (NopApp :> ApplicationFields(cfgNOP))
  /\ held = NoArray

\* Applications are constructed from the empty configuration
Init ==
  /\ Loaded
  /\ cfgRoot = EmptyConfig

\* Application.constructor with a valid Configuration, completing the call (op, arg)
Construct(op, arg) ==
  /\ Cardinality(RealApps) < MaxApps
  /\ LET self == App(Cardinality(RealApps) + 1) IN
       /\ disposed' = disposed @@ (self :> FALSE)
       /\ instances' = PushPrevious(instance, instances)
       /\ instance' = self
       /\ hookRuns' = hookRuns @@ (self :> 0)
       /\ prevOf' = prevOf @@ (self :> Instance)
       /\ fields' = fields @@ (self :> ApplicationFields(cfgRoot))
       /\ call' = [op |-> op, target |-> self, arg |-> arg, raised |-> FALSE, wasDisposed |-> FALSE]
  /\ UNCHANGED <<director, appMap, nested, cfgRoot, held>>

\* new Application(cfg) with a valid Configuration
ApplicationCtor ==
  Construct("newApp", Value("Configuration"))

\* A call that throws before it changes anything
Throws(op, arg) ==
  /\ call' = [op |-> op, target |-> Null, arg |-> arg, raised |-> TRUE, wasDisposed |-> FALSE]
  /\ UNCHANGED <<instance, instances, disposed, director, appMap, hookRuns, prevOf, nested>>
  /\ UNCHANGED <<cfgRoot, fields, held>>

\* types.isString
isString(v) ==
  v[1] = "string"

\* types.isArray
isArray(v) ==
  v[1] = "array"

\* types.isFunction
isFunction(v) ==
  v[1] = "function"

\* v === Object(v): v is not a primitive
IsObjectValue(v) ==
  v[1] \notin {"undefined", "null", "number", "boolean", "string"}

\* types.isObject
isObject(v) ==
  IsObjectValue(v) /\ ~isArray(v) /\ ~isFunction(v)

\* Arguments tried on the application(cfg) factory
FactoryArgs ==
  {Undefined, Null, Value("string"), Value("plain"), Value("ConfigNode"), Value("Configuration"),
   Value("number"), Value("boolean"), Value("array"), Value("function")}

\* Variant of the factory that wraps every argument that is not a string into a Configuration
application_WrapsAnything(cfg) ==
  Construct("application", cfg)

\* application(cfg): strings and objects are normalised to a Configuration, anything else is rejected
application(cfg) ==
  LET given == IF cfg = Undefined \/ cfg = Null THEN Value("plain") ELSE cfg IN
  IF isString(given) THEN Construct("application", cfg)
  ELSE IF isObject(given) THEN Construct("application", cfg)
  ELSE Throws("application", cfg)

\* ApplicationComponent.constructor, lines 216-222: register under the resolved app
Register(map, a, c) ==
  LET clist == IF MapHas(map, a) THEN map[a] ELSE <<>>
  IN MapSet(map, a, Append(clist, c))

\* Variant of the component constructor in which the new component takes over the components
\* that its director directed: their #director becomes the new component
ComponentCtor_TakesOverDirected(dir) ==
  IF ~isOfEither(dir) THEN Throws("newComp", dir)
  ELSE
  /\ Cardinality(Comps) < MaxComps
  /\ LET self == Comp(Cardinality(Comps) + 1) IN
       /\ disposed' = disposed @@ (self :> FALSE)
       /\ director' = [c \in Comps \cup {self} |->
                         IF c = self THEN dir
                         ELSE IF director[c] = dir THEN self ELSE director[c]]
       /\ appMap' = Register(appMap, app(director', self), self)
       /\ hookRuns' = hookRuns @@ (self :> 0)
       /\ call' = [op |-> "newComp", target |-> self, arg |-> dir, raised |-> FALSE, wasDisposed |-> FALSE]
  /\ UNCHANGED <<instance, instances, prevOf, nested, cfgRoot, fields, held>>

\* Variant of the component constructor without the director check: a director that is not
\* null is stored, its `app` property reads undefined and the component registers under that key
ComponentCtor_Unchecked(dir) ==
  IF dir = Null THEN Throws("newComp", dir)
  ELSE
  /\ Cardinality(Comps) < MaxComps
  /\ LET self == Comp(Cardinality(Comps) + 1) IN
       /\ disposed' = disposed @@ (self :> FALSE)
       /\ director' = director @@ (self :> dir)
       /\ appMap' = Register(appMap, IF isOfEither(dir) THEN app(director', self) ELSE Undefined, self)
       /\ hookRuns' = hookRuns @@ (self :> 0)
       /\ call' = [op |-> "newComp", target |-> self, arg |-> dir, raised |-> FALSE, wasDisposed |-> FALSE]
  /\ UNCHANGED <<instance, instances, prevOf, nested, cfgRoot, fields, held>>

\* Variant of the component constructor that makes the component's app the current application
ComponentCtor_MakesAppCurrent(dir) ==
  IF ~isOfEither(dir) THEN Throws("newComp", dir)
  ELSE
  /\ Cardinality(Comps) < MaxComps
  /\ LET self == Comp(Cardinality(Comps) + 1) IN
       /\ disposed' = disposed @@ (self :> FALSE)
       /\ director' = director @@ (self :> dir)
       /\ appMap' = Register(appMap, app(director', self), self)
       /\ instance' = app(director', self)
       /\ hookRuns' = hookRuns @@ (self :> 0)
       /\ call' = [op |-> "newComp", target |-> self, arg |-> dir, raised |-> FALSE, wasDisposed |-> FALSE]
  /\ UNCHANGED <<instances, prevOf, nested, cfgRoot, fields, held>>

\* new ApplicationComponent(dir)
ComponentCtor(dir) ==
  IF ~isOfEither(dir) THEN Throws("newComp", dir)
  ELSE
  /\ Cardinality(Comps) < MaxComps
  /\ LET self == Comp(Cardinality(Comps) + 1) IN
       /\ disposed' = disposed @@ (self :> FALSE)
       /\ director' = director @@ (self :> dir)
       /\ appMap' = Register(appMap, app(director', self), self)
       /\ hookRuns' = hookRuns @@ (self :> 0)
       /\ call' = [op |-> "newComp", target |-> self, arg |-> dir, raised |-> FALSE, wasDisposed |-> FALSE]
  /\ UNCHANGED <<instance, instances, prevOf, nested, cfgRoot, fields, held>>

----------------------------------------------------------------------------
\* Disposal.

\* Array.prototype.pop followed by `prev ?? null`
PopOrNull(stack) ==
  IF Len(stack) = 0 THEN Null ELSE stack[Len(stack)]

PopRest(stack) ==
  IF Len(stack) = 0 THEN stack ELSE SubSeq(stack, 1, Len(stack) - 1)

\* Application[DESTRUCTOR_METHOD]
ApplicationDestructor(o) ==
  IF IsNopApplication(o)
    THEN UNCHANGED <<instance, instances>>
    ELSE /\ instance' = PopOrNull(instances)
         /\ instances' = PopRest(instances)

\* ApplicationComponent[DESTRUCTOR_METHOD]: the registry after the unregistration
Unregister(map, a, c) ==
  IF MapHas(map, a)
    THEN LET clist == arrayDelete(map[a], c) IN
         IF Len(clist) = 0 THEN MapDelete(map, a) ELSE MapSet(map, a, clist)
    ELSE map

ComponentDestructor(o) ==
  appMap' = Unregister(appMap, app(director, o), o)

\* A run of o's DESTRUCTOR_METHOD, dispatched on the class of o
RunDestructor(o) ==
  /\ hookRuns' = [hookRuns EXCEPT ![o] = IF @ < MaxHookRuns THEN @ + 1 ELSE @]
  /\ IF IsComponent(o)
       THEN ComponentDestructor(o) /\ UNCHANGED <<instance, instances>>
       ELSE ApplicationDestructor(o) /\ UNCHANGED appMap

\* types.js:52 is the statement `[DESTRUCTOR_METHOD]();`: its callee is the
\* array literal [DESTRUCTOR_METHOD], not the member this[DESTRUCTOR_METHOD].
DestructorCallee ==
  "array"

\* Calling a value: a method runs, anything that is not callable throws TypeError.
CallValue(callee, o, wasDisposed) ==
  IF callee = "method"
    THEN /\ RunDestructor(o)
         /\ call' = [op |-> "dispose", target |-> o, arg |-> Null, raised |-> FALSE, wasDisposed |-> wasDisposed]
    ELSE /\ UNCHANGED <<instance, instances, appMap, hookRuns>>
         /\ call' = [op |-> "dispose", target |-> o, arg |-> Null, raised |-> TRUE, wasDisposed |-> wasDisposed]

\* The newest real Application that is not disposed
IsNewestUndisposed(o) ==
  /\ o \in RealApps
  /\ ~disposed[o]
  /\ \A b \in RealApps : ~disposed[b] => b[2] <= o[2]

\* Variant of DisposeMethod without the disposed guard, running the object's destructor on every call
DisposeMethod_Unguarded(o) ==
  /\ disposed' = [disposed EXCEPT ![o] = TRUE]
  /\ nested' = IF o \in RealApps /\ ~disposed[o] THEN nested /\ IsNewestUndisposed(o) ELSE nested
  /\ CallValue("method", o, disposed[o])

\* Variant of DisposeMethod that runs the stack pop of the Application destructor for every
\* Application, the NopApplication included
DisposeMethod_PopsForAny(o) ==
  IF disposed[o]
    THEN /\ UNCHANGED <<instance, instances, disposed, appMap, hookRuns, nested>>
         /\ call' = [op |-> "dispose", target |-> o, arg |-> Null, raised |-> FALSE, wasDisposed |-> TRUE]
    ELSE /\ disposed' = [disposed EXCEPT ![o] = TRUE]
         /\ nested' = IF o \in RealApps THEN nested /\ IsNewestUndisposed(o) ELSE nested
         /\ hookRuns' = [hookRuns EXCEPT ![o] = IF @ < MaxHookRuns THEN @ + 1 ELSE @]
         /\ IF IsApplication(o)
              THEN /\ instance' = PopOrNull(instances)
                   /\ instances' = PopRest(instances)
                   /\ UNCHANGED appMap
              ELSE ComponentDestructor(o) /\ UNCHANGED <<instance, instances>>
         /\ call' = [op |-> "dispose", target |-> o, arg |-> Null, raised |-> FALSE, wasDisposed |-> FALSE]

\* Variant of DisposeMethod that sets the disposed flag after the destructor call instead of before it
DisposeMethod_FlagAfterHook(o) ==
  IF disposed[o]
    THEN /\ UNCHANGED <<instance, instances, disposed, appMap, hookRuns, nested>>
         /\ call' = [op |-> "dispose", target |-> o, arg |-> Null, raised |-> FALSE, wasDisposed |-> TRUE]
    ELSE /\ nested' = IF o \in RealApps THEN nested /\ IsNewestUndisposed(o) ELSE nested
         /\ CallValue(DestructorCallee, o, FALSE)
         /\ disposed' = IF call'.raised THEN disposed ELSE [disposed EXCEPT ![o] = TRUE]

\* Variant of DisposeMethod in which the first dispose call on an Application also disposes the
\* components registered under it and deletes its registry entry
DisposeMethod_CascadesToComponents(o) ==
  IF disposed[o]
    THEN /\ UNCHANGED <<instance, instances, disposed, appMap, hookRuns, nested>>
         /\ call' = [op |-> "dispose", target |-> o, arg |-> Null, raised |-> FALSE, wasDisposed |-> TRUE]
    ELSE /\ disposed' = [x \in DOMAIN disposed |->
                           IF x = o \/ (IsApplication(o) /\ MapHas(appMap, o) /\ x \in Range(appMap[o]))
                             THEN TRUE ELSE disposed[x]]
         /\ appMap' = IF IsApplication(o) /\ MapHas(appMap, o) THEN MapDelete(appMap, o) ELSE appMap
         /\ nested' = IF o \in RealApps THEN nested /\ IsNewestUndisposed(o) ELSE nested
         /\ UNCHANGED <<instance, instances, hookRuns>>
         /\ call' = [op |-> "dispose", target |-> o, arg |-> Null, raised |-> TRUE, wasDisposed |-> FALSE]

\* DisposableObject[DISPOSE_METHOD]
DisposeMethod(o) ==
  IF disposed[o]
    THEN /\ UNCHANGED <<instance, instances, disposed, appMap, hookRuns, nested>>
         /\ call' = [op |-> "dispose", target |-> o, arg |-> Null, raised |-> FALSE, wasDisposed |-> TRUE]
    ELSE /\ disposed' = [disposed EXCEPT ![o] = TRUE]
         /\ nested' = IF o \in RealApps THEN nested /\ IsNewestUndisposed(o) ELSE nested
         /\ CallValue(DestructorCallee, o, FALSE)

\* obj[Symbol.dispose]() on any constructed object, the NopApplication included
Dispose(o) ==
  /\ o \in Objects
  /\ DisposeMethod(o)
  /\ UNCHANGED <<director, prevOf, cfgRoot, fields, held>>

----------------------------------------------------------------------------
\* Arrays handed to callers.  An array is identified by `ref`: <<"list", a>> is
\* the list object that #appMap stores for application a, Fresh is an array
\* object that nothing else references.

Fresh ==
  <<"fresh", Null>>

\* Variant of arrayCopy that returns the array it was given
arrayCopyRef_SameArray(ref) ==
  ref

\* types.arrayCopy: array.slice() allocates a new array
arrayCopyRef(ref) ==
  Fresh

\* getAllApplicationComponents(a), called by a caller that keeps the returned array
GetAll(a) ==
  /\ a \in Apps
  /\ held' = [of    |-> a,
              ref   |-> IF ~MapHas(appMap, a) THEN Fresh ELSE arrayCopyRef(<<"list", a>>),
              items |-> getAllApplicationComponents(appMap, a)]
  /\ call' = [op |-> "components", target |-> a, arg |-> Null, raised |-> FALSE, wasDisposed |-> FALSE]
  /\ UNCHANGED <<instance, instances, disposed, director, appMap, hookRuns, prevOf, nested, cfgRoot, fields>>

\* Array.prototype.reverse
reverse(array) ==
  [i \in 1..Len(array) |-> array[Len(array) + 1 - i]]

\* What a caller may do to the array it holds: push a value, pop, reverse
Mutations ==
  {"push", "pop", "reverse"}

Mutated(array, m) ==
  IF m = "push" THEN Append(array, Value("plain"))
  ELSE IF m = "pop" THEN SubSeq(array, 1, Len(array) - 1)
  ELSE reverse(array)

\* The caller mutates the array it holds in place; a list of #appMap that is the same
\* array object changes with it
MutateHeld(m) ==
  /\ held # NoArray
  /\ m = "push" => Len(held.items) < MaxHeldLen
  /\ m = "pop" => Len(held.items) > 0
  /\ held' = [held EXCEPT !.items = Mutated(held.items, m)]
  /\ appMap' = IF held.ref = <<"list", held.of>>
                 THEN MapSet(appMap, held.of, Mutated(held.items, m))
                 ELSE appMap
  /\ call' = [op |-> "mutate", target |-> held.of, arg |-> Null, raised |-> FALSE, wasDisposed |-> FALSE]
  /\ UNCHANGED <<instance, instances, disposed, director, hookRuns, prevOf, nested, cfgRoot, fields>>

\* The calls with well-formed arguments.
Next ==
  \/ ApplicationCtor
  \/ \E dir \in Objects : ComponentCtor(dir)
  \/ \E o \in Objects : Dispose(o)

Spec ==
  Init /\ [][Next]_vars

\* The same calls, plus the application(cfg) factory on every kind of argument and
\* component constructions with directors that are not chassis objects.
NextArguments ==
  \/ ApplicationCtor
  \/ \E dir \in Objects : ComponentCtor(dir)
  \/ \E o \in Objects : Dispose(o)
  \/ \E cfg \in FactoryArgs : application(cfg)
  \/ \E dir \in InvalidDirectors : ComponentCtor(dir)

SpecArguments ==
  Init /\ [][NextArguments]_vars

\* Constructions, and callers that fetch the components of an application and mutate the
\* array they got.
NextCopy ==
  \/ ApplicationCtor
  \/ \E dir \in Objects : ComponentCtor(dir)
  \/ \E a \in Apps : GetAll(a)
  \/ \E m \in Mutations : MutateHeld(m)

SpecCopy ==
  Init /\ [][NextCopy]_vars

\* Applications constructed, directly and through the factory, from any configuration root.
InitConfig ==
  /\ Loaded
  /\ cfgRoot \in Configs

NextConfig ==
  \/ ApplicationCtor
  \/ \E cfg \in FactoryArgs : application(cfg)

SpecConfig ==
  InitConfig /\ [][NextConfig]_vars

----------------------------------------------------------------------------
\* Vocabulary of the properties.

\* The call that has just completed was the first dispose call on object o
FirstDisposeOf(o) ==
  call.op = "dispose" /\ call.target = o /\ ~call.wasDisposed

\* This step is a dispose call on o
DisposeStepOn(o) ==
  call'.op = "dispose" /\ call'.target = o

\* The newest real Application that is not disposed, or the NopApplication
NewestUndisposedApp ==
  IF \E a \in RealApps : ~disposed[a]
    THEN CHOOSE a \in RealApps : IsNewestUndisposed(a)
    ELSE NopApp

\* Number of occurrences of c in all lists of the registry
Occurrences(map, c) ==
  LET inList(list) == Cardinality({i \in DOMAIN list : list[i] = c})
      RECURSIVE sum(_)
      sum(keys) ==
        IF keys = {} THEN 0
        ELSE LET k == CHOOSE k \in keys : TRUE IN inList(map[k]) + sum(keys \ {k})
  IN sum(DOMAIN map)

Registered(map, a) ==
  Range(getAllApplicationComponents(map, a))

NoDuplicates(s) ==
  \A i, k \in DOMAIN s : s[i] = s[k] => i = k

----------------------------------------------------------------------------
\* C1: for real Applications constructed in nested order and disposed in
\* reverse order, a construction makes Application.instance the new
\* application and each disposal makes Application.instance the application
\* that was current just before the disposed one was constructed (the
\* NopApplication for the outermost one).
C1_NestedDisposeRestoresPrevious ==
  /\ call.op \in {"newApp", "application"} /\ ~call.raised => Instance = call.target
  /\ \A a \in RealApps : (FirstDisposeOf(a) /\ nested) => Instance = prevOf[a]

\* C2: after any sequence of constructions and disposals, in any order,
\* Application.instance is the most recently constructed Application that
\* is not disposed, or the NopApplication when there is none.
C2_InstanceIsNewestUndisposed ==
  Instance = NewestUndisposedApp

\* C3: the destructor of every Application and ApplicationComponent has run
\* exactly once if the object is disposed (during the first dispose call,
\* the only one that sets the flag) and not at all otherwise.
C3_DestructorRunsExactlyOnce ==
  \A o \in Objects : hookRuns[o] = (IF disposed[o] THEN 1 ELSE 0)

\* C4: a component c occurs in the registry list of application X exactly
\* when c is constructed, not disposed and X is c's resolved app, and c
\* occurs at most once across all lists of the registry.
C4_RegistryHoldsExactlyLiveComponents ==
  /\ \A X \in Apps : \A c \in Comps :
       (c \in Registered(appMap, X)) <=> (~disposed[c] /\ app(director, c) = X)
  /\ \A X \in DOMAIN appMap : Range(appMap[X]) \subseteq Comps /\ X \in Apps
  /\ \A c \in Comps : Occurrences(appMap, c) <= 1

C7_SecondDisposeChangesNothing ==
  [][\A o \in Objects : (disposed[o] /\ DisposeStepOn(o)) => UNCHANGED progVars]_vars

\* C7 witness: repeated dispose calls have completed on a component while a real Application is disposed too.
C7_Witness ==
  /\ call.op = "dispose"
  /\ call.wasDisposed
  /\ IsComponent(call.target)
  /\ \E a \in RealApps : disposed[a] /\ Len(instances) > 0

\* C8: every dispose call completes without raising an error.
C8_DisposeNeverRaises ==
  call.op = "dispose" => ~call.raised

\* C9: the first dispose call on a component c1 that has an undisposed child
\* c2 removes c1, and only c1, from the components of c1's app X; c2 stays
\* registered under X, undisposed, and c2.app is still X.
C9_DisposeWithChildRemovesOnlyParent ==
  [][\A c1, c2 \in Comps :
       LET X == app(director, c1) IN
       (/\ ~disposed[c1]
        /\ DisposeStepOn(c1)
        /\ c1 # c2
        /\ director[c2] = c1
        /\ ~disposed[c2]
        /\ c2 \in Registered(appMap, X))
       => /\ Registered(appMap', X) = Registered(appMap, X) \ {c1}
          /\ c2 \in Registered(appMap', X)
          /\ ~disposed'[c2]
          /\ app(director', c2) = X]_vars

\* An entry of the registry with an empty list
HasEmptyEntry(map) ==
  \E X \in DOMAIN map : Len(map[X]) = 0

\* C10: the registry never holds an entry with an empty list, and the first
\* dispose call on the only registered component of an application deletes
\* the application's entry, after which allComponents returns the empty sequence.
C10_NoEmptyEntryAndLastDisposeDeletes ==
  /\ [](~HasEmptyEntry(appMap))
  /\ [][\A c \in Comps :
          LET X == app(director, c) IN
          (/\ ~disposed[c]
           /\ DisposeStepOn(c)
           /\ getAllApplicationComponents(appMap, X) = <<c>>)
          => /\ ~MapHas(appMap', X)
             /\ getAllApplicationComponents(appMap', X) = <<>>]_vars

----------------------------------------------------------------------------
\* This step constructs a new Application
NewApplicationStep ==
  RealApps' # RealApps

\* C11 as stated: the previous current application is pushed only if it is
\* a real application, so every element of the instance stack is a real
\* Application and the NopApplication is never on the stack.
C11_StackHoldsOnlyRealApps ==
  \A i \in DOMAIN instances : instances[i] \in RealApps

\* C11 as amended: when a new Application is constructed the previous
\* Application.#instance is pushed onto the instance stack if it is not
\* null, the NopApplication (the #instance after module load) included, and
\* the new instance becomes current; the stack never contains null and holds
\* the NopApplication at most once, at the bottom.
C11_PushesPreviousUnlessNull ==
  /\ [][NewApplicationStep =>
          /\ instances' = (IF instance = Null THEN instances ELSE instances \o <<instance>>)
          /\ instance' \in RealApps' \ RealApps]_vars
  /\ [](\A i \in DOMAIN instances :
          /\ instances[i] \in Apps
          /\ instances[i] = NopApp => i = 1)

\* C11 witness: two real Applications were constructed and the NopApplication lies at the bottom of the stack.
C11_Witness ==
  /\ Len(instances) = 2
  /\ instances[1] = NopApp
  /\ instances[2] \in RealApps
  /\ instance \in RealApps

\* C12: a dispose call on the NopApplication, in any state, leaves
\* Application.#instance, the current application and the instance stack unchanged.
C12_DisposeOfNopKeepsCurrentAndStack ==
  [][DisposeStepOn(NopApp) => (UNCHANGED <<instance, instances>> /\ Instance' = Instance)]_vars

\* C12 witness: the first dispose call on the NopApplication completed while a real Application is current.
C12_Witness ==
  /\ FirstDisposeOf(NopApp)
  /\ Instance \in RealApps
  /\ Len(instances) > 0

\* C13: Application.instance always returns a constructed Application
\* object, never null or undefined.
C13_InstanceIsAlwaysAnApplication ==
  Instance # Null /\ Instance \in Apps

\* C13 witness: every real Application constructed has been disposed and the accessor still returns an Application.
C13_Witness ==
  /\ Cardinality(RealApps) = MaxApps
  /\ \A a \in RealApps : disposed[a]
  /\ Instance \in Apps

\* C17: an object's disposed flag is false when the object is constructed,
\* becomes true in the first dispose call on that object, never returns to
\* false, and changes in no step other than a dispose call on that object.
C17_DisposedFlagIsSetOnceByOwnDispose ==
  [][/\ \A o \in Objects' \ Objects : ~disposed'[o]
     /\ \A o \in Objects :
          /\ o \in Objects'
          /\ disposed[o] => disposed'[o]
          /\ (~disposed[o] /\ DisposeStepOn(o)) => disposed'[o]
          /\ disposed'[o] # disposed[o] => DisposeStepOn(o)]_vars

\* C17 witness: a repeated dispose call completed on a disposed object while another object is undisposed.
C17_Witness ==
  /\ call.op = "dispose"
  /\ call.wasDisposed
  /\ disposed[call.target]
  /\ \E o \in Comps : ~disposed[o]
  /\ \E a \in RealApps : ~disposed[a]

\* C18: a component's director and its resolved app are the same after
\* every step as before it, whatever is constructed or disposed, the
\* director itself included.
C18_DirectorAndAppNeverChange ==
  [][\A c \in Comps :
       /\ c \in Comps'
       /\ director'[c] = director[c]
       /\ app(director', c) = app(director, c)]_vars

\* C18 witness: a component whose director is disposed, after a later construction directed by another object.
C18_Witness ==
  \E c \in Comps :
    /\ disposed[director[c]]
    /\ call.op = "newComp"
    /\ ~call.raised
    /\ call.target # c
    /\ director[call.target] # director[c]

\* The object reached from o by following at most n director references, or Null
RECURSIVE Climb(_, _)
Climb(o, n) ==
  IF IsApplication(o) THEN o
  ELSE IF n = 0 THEN Null
  ELSE Climb(director[o], n - 1)

\* C20: for every component the director chain is acyclic (a director is an
\* Application or a component constructed earlier), the app getter returns
\* the constructed Application reached by following at most as many director
\* references as there are components, and isDirectedByApp holds exactly
\* when the director is an Application.
C20_AppIsTopOfFiniteDirectorChain ==
  \A c \in Comps :
    /\ director[c] \in Apps \/ (director[c] \in Comps /\ director[c][2] < c[2])
    /\ app(director, c) \in Apps
    /\ app(director, c) = Climb(c, Cardinality(Comps))
    /\ isDirectedByApp(director, c) <=> director[c] \in Apps

\* C20 witness: c2 directed by c1 directed by a real Application, to which both resolve.
C20_Witness ==
  \E c1, c2 \in Comps :
    /\ director[c2] = c1
    /\ director[c1] \in RealApps
    /\ app(director, c2) = director[c1]
    /\ ~isDirectedByApp(director, c2)

\* C14: a construction of an ApplicationComponent with a director that is
\* neither an Application nor an ApplicationComponent throws, creates no
\* component and leaves the registry as it was.
C14_InvalidDirectorIsRejected ==
  [][(call'.op = "newComp" /\ call'.arg \in InvalidDirectors) =>
       /\ call'.raised
       /\ appMap' = appMap
       /\ Objects' = Objects
       /\ director' = director]_vars

\* C14 witness: a construction with a number as director was rejected while the registry holds components.
C14_Witness ==
  /\ call.op = "newComp"
  /\ call.arg = Value("number")
  /\ call.raised
  /\ appMap # <<>>

\* C15: a call of the application(cfg) factory with a number or a boolean
\* throws and constructs no Application: the current application, the
\* instance stack and the set of objects are as before.
C15_FactoryRejectsNumberAndBoolean ==
  [][(call'.op = "application" /\ call'.arg \in {Value("number"), Value("boolean")}) =>
       /\ call'.raised
       /\ UNCHANGED <<instance, instances>>
       /\ Instance' = Instance
       /\ Objects' = Objects]_vars

\* C15 witness: factory calls with a boolean were rejected while a real Application, built by the factory, is current.
C15_Witness ==
  /\ call.op = "application"
  /\ call.arg = Value("boolean")
  /\ call.raised
  /\ Instance \in RealApps

\* C19: an Application takes id, name, description, copyright, envName and
\* isTest from its configuration root, with the defaults "#0", id, id,
\* "2023 Azist Group", "local" and false: the empty configuration yields id,
\* name and description "#0", and a configuration that sets only id yields
\* name and description equal to that id.
C19_FieldsComeFromConfigWithDefaults ==
  \A a \in RealApps :
    LET f == fields[a]
        has(k) == k \in DOMAIN cfgRoot
    IN /\ f.id = (IF has("id") THEN cfgRoot["id"] ELSE "#0")
       /\ f.name = (IF has("name") THEN cfgRoot["name"] ELSE f.id)
       /\ f.description = (IF has("description") THEN cfgRoot["description"] ELSE f.id)
       /\ f.copyright = (IF has("copyright") THEN cfgRoot["copyright"] ELSE "2023 Azist Group")
       /\ f.envName = (IF has("envName") THEN cfgRoot["envName"] ELSE "local")
       /\ f.isTest = (IF has("isTest") THEN cfgRoot["isTest"] ELSE FALSE)
       /\ DOMAIN cfgRoot = {} =>
            /\ f.id = "#0" /\ f.name = "#0" /\ f.description = "#0"
            /\ f.envName = "local" /\ f.isTest = FALSE
       /\ DOMAIN cfgRoot = {"id"} => (f.name = cfgRoot["id"] /\ f.description = cfgRoot["id"])

\* C19 witness: an Application was constructed from a configuration that sets only id.
C19_Witness ==
  /\ DOMAIN cfgRoot = {"id"}
  /\ \E a \in RealApps : fields[a].name = "app1" /\ fields[a].description = "app1"

\* C16: the array returned by allComponents(app) is a copy: when the caller
\* pushes to it, pops from it or reverses it, the registry is unchanged and
\* allComponents still returns, for every application, what it returned before.
C16_ReturnedArrayIsACopy ==
  [][call'.op = "mutate" =>
       /\ appMap' = appMap
       /\ \A a \in Apps :
            getAllApplicationComponents(appMap', a) = getAllApplicationComponents(appMap, a)]_vars

\* C16 witness: a caller mutated the array it got for an application with two components,
\* and the array now differs from what allComponents returns.
C16_Witness ==
  /\ call.op = "mutate"
  /\ MapHas(appMap, held.of)
  /\ Len(appMap[held.of]) = 2
  /\ held.items # getAllApplicationComponents(appMap, held.of)

\* The construction numbers of the components of a list are strictly increasing
InConstructionOrder(list) ==
  \A i, k \in DOMAIN list : i < k => list[i][2] < list[k][2]

\* C21: allComponents(X) lists the registered components of X in the order
\* of their construction: a construction appends the new component to the
\* list of its app, and the first dispose call on a component removes it from
\* the list and keeps the others in their order.
C21_ListedInConstructionOrderAndRemovedOnDispose ==
  /\ [](\A X \in Apps : InConstructionOrder(getAllApplicationComponents(appMap, X)))
  /\ [][/\ (call'.op = "newComp" /\ ~call'.raised) =>
              \A X \in Apps :
                getAllApplicationComponents(appMap', X) =
                  IF X = app(director', call'.target)
                    THEN Append(getAllApplicationComponents(appMap, X), call'.target)
                    ELSE getAllApplicationComponents(appMap, X)
        /\ \A c \in Comps : (DisposeStepOn(c) /\ ~disposed[c]) =>
              \A X \in Apps :
                getAllApplicationComponents(appMap', X) =
                  arrayDelete(getAllApplicationComponents(appMap, X), c)]_vars

\* C22: once every real Application that was constructed is disposed, in
\* whatever order the dispose calls came, Application.instance is the
\* NopApplication and the instance stack holds no real Application.
C22_AllDisposedLeavesNopCurrent ==
  (RealApps # {} /\ \A a \in RealApps : disposed[a]) =>
    /\ Instance = NopApp
    /\ \A i \in DOMAIN instances : instances[i] \notin RealApps

\* C23: a dispose call on an Application leaves the registry as it was: the
\* components registered under that application stay in its list, a
\* component that was not disposed is still not disposed, and allComponents
\* returns for the application what it returned before the call.
C23_DisposeOfApplicationKeepsRegistry ==
  [][\A a \in Apps : DisposeStepOn(a) =>
       /\ appMap' = appMap
       /\ director' = director
       /\ \A c \in Registered(appMap, a) :
            /\ c \in Registered(appMap', a)
            /\ ~disposed[c] => ~disposed'[c]
       /\ getAllApplicationComponents(appMap', a) = getAllApplicationComponents(appMap, a)]_vars

\* C23 witness: the first dispose call on a real Application with two registered
\* components has completed, and both components are still registered and not disposed.
C23_Witness ==
  \E a \in RealApps :
    /\ FirstDisposeOf(a)
    /\ Len(getAllApplicationComponents(appMap, a)) = 2
    /\ \A c \in Registered(appMap, a) : ~disposed[c]

\* C24: neither the construction of an ApplicationComponent nor a dispose
\* call on one changes Application.#instance, the instance stack or what
\* Application.instance returns.
C24_ComponentsNeverChangeCurrentApplication ==
  [][(call'.op = "newComp" \/ \E c \in Comps : DisposeStepOn(c)) =>
       /\ instance' = instance
       /\ instances' = instances
       /\ InstanceOf(instance') = InstanceOf(instance)]_vars

\* C24 witness: a component constructed under the NopApplication while a real Application
\* was current over a stack of two has had its first dispose call, and that Application is
\* still current.
C24_Witness ==
  \E c \in Comps :
    /\ FirstDisposeOf(c)
    /\ app(director, c) = NopApp
    /\ Instance \in RealApps
    /\ Len(instances) = 2

====
